---------------------------- MODULE Spec2Model ----------------------------
(***************************************************************************)
(* A model of three pieces of the darts library:                           *)
(*   - darts/explainability/shap_explainer.py  (ShapExplainer and its      *)
(*     helper _RegressionShapExplainers: the lagged feature matrix and     *)
(*     the reassembly of the attribution output per horizon and component) *)
(*   - darts/ad/scorers/difference_scorer.py   (DifferenceScorer)          *)
(*   - darts/models/forecasting/croston.py     (Croston.__init__)          *)
(*                                                                         *)
(* Python values are encoded as follows.  An Optional value is a sequence: *)
(* None is <<>> and a present value v is <<v>>.  A str whose characters    *)
(* matter (it goes through upper() or lower()) is a sequence of            *)
(* one-character strings.  A pandas DataFrame is a record                  *)
(* [columns, index, data] with data in row-major order; a cell is NaN or   *)
(* <<k, c, t>>, the value series k holds for component c at time t.        *)
(***************************************************************************)
EXTENDS Integers, Sequences, FiniteSets, TLC

VARIABLES
    bx_in,      \* the arguments of a _create_regression_model_shap_X call
    bx_out,     \* what that call returned or raised
    sx_in,      \* the arguments ShapExplainer was constructed with
    sx,         \* the ShapExplainer object, or how its construction failed
    call,       \* the method called on the ShapExplainer and its outcome
    sc_in,      \* the arguments of a DifferenceScorer call
    sc_out,     \* what that call returned or raised
    cr_in,      \* the arguments Croston was constructed with
    cr          \* the Croston object, or how its construction failed

bxVars == <<bx_in, bx_out>>

sxVars == <<sx_in, sx, call>>

scVars == <<sc_in, sc_out>>

crVars == <<cr_in, cr>>

vars == <<bx_in, bx_out, sx_in, sx, call, sc_in, sc_out, cr_in, cr>>

-----------------------------------------------------------------------------
(* Bounds of the model *)

MaxLen == 3
MaxLag == 2
MaxComp == 2

-----------------------------------------------------------------------------
(* Python's None / Optional and generic sequence helpers *)

None == <<>>

Some(v) == <<v>>

Range(s) == {s[k] : k \in DOMAIN s}

RECURSIVE Flatten(_)
Flatten(ss) ==
    IF ss = <<>> THEN <<>> ELSE Head(ss) \o Flatten(Tail(ss))

MinOf(S) == CHOOSE x \in S : \A y \in S : x <= y

MaxOf(S) == CHOOSE x \in S : \A y \in S : x >= y

RECURSIVE SortedSeq(_)
SortedSeq(S) ==
    IF S = {} THEN <<>> ELSE <<MinOf(S)>> \o SortedSeq(S \ {MinOf(S)})

Abs(x) == IF x < 0 THEN -x ELSE x

-----------------------------------------------------------------------------
(* Python str: upper() and lower() on sequences of characters *)

LowerLetters == <<"a", "b", "c", "d", "e", "f", "g", "h", "i", "j", "k", "l", "m", "n",
                 "o", "p", "q", "r", "s", "t", "u", "v", "w", "x", "y", "z">>

UpperLetters == <<"A", "B", "C", "D", "E", "F", "G", "H", "I", "J", "K", "L", "M", "N",
                 "O", "P", "Q", "R", "S", "T", "U", "V", "W", "X", "Y", "Z">>

\* str.upper(): every lower-case letter becomes its upper-case letter.
upper(s) ==
    [k \in DOMAIN s |->
        IF \E a \in 1..Len(LowerLetters) : LowerLetters[a] = s[k]
        THEN UpperLetters[CHOOSE a \in 1..Len(LowerLetters) : LowerLetters[a] = s[k]]
        ELSE s[k]]

\* str.lower(): every upper-case letter becomes its lower-case letter.
lower(s) ==
    [k \in DOMAIN s |->
        IF \E a \in 1..Len(UpperLetters) : UpperLetters[a] = s[k]
        THEN LowerLetters[CHOOSE a \in 1..Len(UpperLetters) : UpperLetters[a] = s[k]]
        ELSE s[k]]

-----------------------------------------------------------------------------
(* pandas: the DataFrame operations the feature matrix is built from *)

NaN == <<>>

EmptyDF == [columns |-> <<>>, index |-> <<>>, data |-> <<>>]

NRows(df) == Len(df.index)

NCols(df) == Len(df.columns)

\* TimeSeries.pd_dataframe(copy=False): the series as a table, one row per
\* timestamp and one column per component.
pd_dataframe(ts) ==
    [columns |-> ts.columns, index |-> ts.index, data |-> ts.data]

\* DataFrame.shift(periods): the data moves down by `periods` row positions
\* (up when negative), the index stays, vacated cells become NaN.
shift(df, periods) ==
    [df EXCEPT !.data =
        [r \in 1..NRows(df) |->
            IF (r - periods) \in 1..NRows(df)
            THEN df.data[r - periods]
            ELSE [c \in 1..NCols(df) |-> NaN]]]

\* The row of df labelled t, a row of NaN when df has no such label.
RowAt(df, t) ==
    IF \E p \in 1..NRows(df) : df.index[p] = t
    THEN df.data[CHOOSE p \in 1..NRows(df) : df.index[p] = t]
    ELSE [c \in 1..NCols(df) |-> NaN]

\* pd.concat(dfs, axis=1) of a non-empty list: columns side by side, rows
\* aligned on the index labels (outer join), NaN where a table has no row.
concat_axis1(dfs) ==
    LET idx == SortedSeq(UNION {Range(dfs[k].index) : k \in DOMAIN dfs})
    IN  [columns |-> Flatten([k \in DOMAIN dfs |-> dfs[k].columns]),
         index   |-> idx,
         data    |-> [r \in 1..Len(idx) |->
                        Flatten([k \in DOMAIN dfs |-> RowAt(dfs[k], idx[r])])]]

\* Mutant of dropna: no row is dropped.
dropna_keeps_all(df) == df

\* DataFrame.dropna(): only the rows without any NaN cell are kept.
dropna(df) ==
    LET Complete(r) == \A c \in 1..NCols(df) : df.data[r][c] # NaN
        keep == SelectSeq([r \in 1..NRows(df) |-> r], Complete)
    IN  [columns |-> df.columns,
         index   |-> [i \in 1..Len(keep) |-> df.index[keep[i]]],
         data    |-> [i \in 1..Len(keep) |-> df.data[keep[i]]]]

\* The columns of a list of tables, each name once, in order of appearance.
RECURSIVE UnionColumns(_)
UnionColumns(dfs) ==
    IF dfs = <<>> THEN <<>>
    ELSE LET rest == UnionColumns(Tail(dfs))
         IN  Head(dfs).columns \o
             SelectSeq(rest, LAMBDA c : c \notin Range(Head(dfs).columns))

\* pd.concat(dfs, axis=0) of a non-empty list: the rows of the tables one
\* after the other (index labels may repeat), columns matched by name.
concat_axis0(dfs) ==
    LET cols == UnionColumns(dfs)
        Cell(df, r, name) ==
            IF \E c \in 1..NCols(df) : df.columns[c] = name
            THEN df.data[r][CHOOSE c \in 1..NCols(df) : df.columns[c] = name]
            ELSE NaN
    IN  [columns |-> cols,
         index   |-> Flatten([k \in DOMAIN dfs |-> dfs[k].index]),
         data    |-> Flatten([k \in DOMAIN dfs |->
                        [r \in 1..NRows(dfs[k]) |->
                            [c \in 1..Len(cols) |-> Cell(dfs[k], r, cols[c])]]])]

-----------------------------------------------------------------------------
(* _RegressionShapExplainers._create_regression_model_shap_X *)

\* `if x:` on an Optional list: None and [] are falsy.
Truthy(opt) == opt # None /\ opt[1] # <<>>

\* `if n:` on an Optional int: None and 0 are falsy.
TruthyInt(opt) == opt # None /\ opt[1] # 0

\* df.rename(columns={c: c + suffix for c in df.columns})
rename(df, suffix) ==
    [df EXCEPT !.columns = [c \in 1..NCols(df) |-> df.columns[c] \o suffix]]

\* Mutant of TargetLagBlocks: the shift goes the wrong way (lag, not -lag).
TargetLagBlocks_wrong_way(lags, df_target) ==
    [k \in 1..Len(lags.target) |->
        rename(shift(df_target, lags.target[k]),
               "_target_lag" \o ToString(lags.target[k]))]

\* X: target lags.  One block per configured lag, in the order of the list;
\* inside a block one column per component.
TargetLagBlocks(lags, df_target) ==
    [k \in 1..Len(lags.target) |->
        rename(shift(df_target, -lags.target[k]),
               "_target_lag" \o ToString(lags.target[k]))]

\* Mutant of CovariateLagBlocks: every covariate column is named "past".
CovariateLagBlocks_all_past(idx, df_cov, cov_lags) ==
    [k \in 1..Len(cov_lags) |->
        rename(shift(df_cov, -cov_lags[k]),
               "_past_cov_lag" \o ToString(cov_lags[k]))]

\* X: covariate lags of one entry (df_cov, lags) of `covariates`; idx is the
\* entry's position in that list (0: past, 1: future).
CovariateLagBlocks(idx, df_cov, cov_lags) ==
    LET cov_type == IF idx = 0 THEN "past" ELSE "fut"
    IN  [k \in 1..Len(cov_lags) |->
            rename(shift(df_cov, -cov_lags[k]),
                   "_" \o cov_type \o "_cov_lag" \o ToString(cov_lags[k]))]

\* pd.concat(df_X, axis=1).dropna() on the blocks df_X of one series; an
\* empty list makes pd.concat raise.
CombineLags(df_X) ==
    IF df_X = <<>>
    THEN [status |-> "ValueError", X |-> EmptyDF]
    ELSE [status |-> "ok", X |-> dropna(concat_axis1(df_X))]

\* Mutant of SeriesBlock: a feature class whose series is absent is left out
\* of the block instead of ending the call.
SeriesBlock_skips_absent(lags, idx, target_ts, past_covariates, future_covariates) ==
    LET hasPast == Truthy(past_covariates)
        hasFut  == Truthy(future_covariates)
    IN  IF hasPast /\ idx > Len(past_covariates[1])
        THEN [status |-> "IndexError", X |-> EmptyDF]
        ELSE IF hasFut /\ idx > Len(future_covariates[1])
        THEN [status |-> "IndexError", X |-> EmptyDF]
        ELSE
          CombineLags(
              TargetLagBlocks(lags, pd_dataframe(target_ts))
              \o (IF lags.past # <<>> /\ hasPast
                  THEN CovariateLagBlocks(
                          0, pd_dataframe(past_covariates[1][idx]), lags.past)
                  ELSE <<>>)
              \o (IF lags.future # <<>> /\ hasFut
                  THEN CovariateLagBlocks(
                          1, pd_dataframe(future_covariates[1][idx]), lags.future)
                  ELSE <<>>))

\* One iteration of the loop over the target series: the row block of the
\* idx-th series (idx counts from 1 here, from 0 in the source).
SeriesBlock(lags, idx, target_ts, past_covariates, future_covariates) ==
    LET hasPast == Truthy(past_covariates)
        hasFut  == Truthy(future_covariates)
        df_target == pd_dataframe(target_ts)
    IN  IF hasPast /\ idx > Len(past_covariates[1])
        THEN [status |-> "IndexError", X |-> EmptyDF]
        ELSE IF hasFut /\ idx > Len(future_covariates[1])
        THEN [status |-> "IndexError", X |-> EmptyDF]
        ELSE IF lags.past # <<>> /\ ~hasPast
        THEN [status |-> "AttributeError", X |-> EmptyDF]
        ELSE IF lags.future # <<>> /\ ~hasFut
        THEN [status |-> "AttributeError", X |-> EmptyDF]
        ELSE
          CombineLags(
              TargetLagBlocks(lags, df_target)
              \o (IF lags.past # <<>>
                  THEN CovariateLagBlocks(
                          0, pd_dataframe(past_covariates[1][idx]), lags.past)
                  ELSE <<>>)
              \o (IF lags.future # <<>>
                  THEN CovariateLagBlocks(
                          1, pd_dataframe(future_covariates[1][idx]), lags.future)
                  ELSE <<>>))

\* shap.utils.sample(X, n_samples): X itself when it has no more than
\* n_samples rows, else n_samples rows drawn with replacement; `pick` is the
\* draw, a sequence of row positions.
sample(X, n_samples, pick) ==
    IF n_samples >= NRows(X) THEN X
    ELSE [columns |-> X.columns,
          index   |-> [i \in 1..n_samples |-> X.index[pick[i]]],
          data    |-> [i \in 1..n_samples |-> X.data[pick[i]]]]

\* The draws sample(X, n_samples, _) can make.
Picks(X, n_samples) ==
    IF TruthyInt(n_samples) /\ n_samples[1] < NRows(X)
    THEN [1..n_samples[1] -> 1..NRows(X)]
    ELSE {<<>>}

\* The end of the loop over the series, given the outcome Xs of every
\* iteration: the first failing iteration ends the call, else the row
\* blocks are stacked.
CombineSamples(Xs) ==
    IF \E idx \in 1..Len(Xs) : Xs[idx].status # "ok"
    THEN Xs[MinOf({idx \in 1..Len(Xs) : Xs[idx].status # "ok"})]
    ELSE IF Xs = <<>> THEN [status |-> "ValueError", X |-> EmptyDF]
    ELSE [status |-> "ok",
          X |-> concat_axis0([idx \in 1..Len(Xs) |-> Xs[idx].X])]

\* Mutant of StackedX: every target series is paired with the first series
\* of the covariate lists.
StackedX_first_covariates(lags, target_series, past_covariates, future_covariates) ==
    CombineSamples([idx \in 1..Len(target_series) |->
                      SeriesBlock(lags, 1, target_series[idx],
                                  past_covariates, future_covariates)])

\* The matrix before the optional sampling.  Each iteration reads the
\* covariates at the index of its target series: the inner loop over the two
\* covariate classes reuses the name idx only after `covariates` was built,
\* and the next iteration binds idx anew.
StackedX(lags, target_series, past_covariates, future_covariates) ==
    CombineSamples([idx \in 1..Len(target_series) |->
                      SeriesBlock(lags, idx, target_series[idx],
                                  past_covariates, future_covariates)])

\* `if n_samples: X = shap.utils.sample(X, n_samples)` on a built matrix r.
SampleIfAsked(r, n_samples, pick) ==
    IF r.status = "ok" /\ TruthyInt(n_samples)
    THEN [status |-> "ok", X |-> sample(r.X, n_samples[1], pick)]
    ELSE r

create_regression_model_shap_X(lags, target_series, past_covariates, future_covariates, n_samples, pick) ==
    SampleIfAsked(
        StackedX(lags, target_series, past_covariates, future_covariates),
        n_samples, pick)

-----------------------------------------------------------------------------
(* _ShapMethod and the default method of each sklearn model class *)

TREE == <<"T", "R", "E", "E">>

GRADIENT == <<"G", "R", "A", "D", "I", "E", "N", "T">>

DEEP == <<"D", "E", "E", "P">>

KERNEL == <<"K", "E", "R", "N", "E", "L">>

SAMPLING == <<"S", "A", "M", "P", "L", "I", "N", "G">>

PARTITION == <<"P", "A", "R", "T", "I", "T", "I", "O", "N">>

LINEAR == <<"L", "I", "N", "E", "A", "R">>

PERMUTATION == <<"P", "E", "R", "M", "U", "T", "A", "T", "I", "O", "N">>

ADDITIVE == <<"A", "D", "D", "I", "T", "I", "V", "E">>

\* _ShapMethod.__members__: the names of the enumeration.
ShapMethodMembers ==
    {TREE, GRADIENT, DEEP, KERNEL, SAMPLING, PARTITION, LINEAR, PERMUTATION,
     ADDITIVE}

default_sklearn_shap_explainers ==
    [name \in {"AdaBoostRegressor", "BaggingRegressor", "ExtraTreesRegressor",
               "GradientBoostingRegressor", "LGBMRegressor",
               "RandomForestRegressor", "LinearRegression", "RidgeCV"} |->
        CASE name \in {"AdaBoostRegressor", "BaggingRegressor", "RidgeCV"}
                -> PERMUTATION
          [] name \in {"ExtraTreesRegressor", "GradientBoostingRegressor",
                       "LGBMRegressor", "RandomForestRegressor"}
                -> TREE
          [] name = "LinearRegression"
                -> LINEAR]

-----------------------------------------------------------------------------
(* _RegressionShapExplainers *)

\* _get_explainer_sklearn.  model_sklearn is [class_name, est]: the class
\* of the estimator and which estimator of the regression model it is.
\* An explainer is [kind, model, with_background]; a method without a branch
\* leaves `explainer` unassigned and the use of it raises UnboundLocalError.
get_explainer_sklearn(model_sklearn, background_X, shap_method, kwargs) ==
    LET model_name == model_sklearn.class_name
        method ==
            IF shap_method = None
            THEN IF model_name \in DOMAIN default_sklearn_shap_explainers
                 THEN default_sklearn_shap_explainers[model_name]
                 ELSE KERNEL
            ELSE shap_method[1]
        Built(kind, with_background) ==
            [status |-> "ok",
             explainer |-> [kind |-> kind, model |-> model_sklearn.est,
                            with_background |-> with_background]]
    IN  IF method = TREE
        THEN Built("TreeExplainer",
                   kwargs.feature_perturbation = Some("interventional"))
        ELSE IF method = PERMUTATION THEN Built("PermutationExplainer", TRUE)
        ELSE IF method = KERNEL THEN Built("KernelExplainer", TRUE)
        ELSE IF method = LINEAR THEN Built("LinearExplainer", TRUE)
        ELSE [status |-> "UnboundLocalError",
              explainer |-> [kind |-> "unassigned", model |-> model_sklearn.est,
                             with_background |-> FALSE]]

\* The position, in model.model.estimators_, of the estimator explained for
\* horizon i and component j.
EstimatorIndex(target_dim, i, j) == i + j

\* Mutant of OutputIndex: the horizon is not multiplied by the stride.
OutputIndex_no_stride(target_dim, i, j) == i + j

\* The position, on the last axis of the combined attribution output, of
\* horizon i and component j.
OutputIndex(target_dim, i, j) == target_dim * i + j

\* The sklearn model behind the regression model and, for a
\* MultiOutputRegressor, its fitted estimators (one per output column).
SklearnModel(model) == [class_name |-> model.estimator_class, est |-> <<"model", 0>>]

Estimator(model, p) == [class_name |-> model.estimator_class, est |-> <<"estimators_", p>>]

NoExplainers ==
    [is_multiOutputRegressor |-> FALSE, target_dim |-> 0, n |-> 0,
     single_output |-> FALSE, background_X |-> EmptyDF, explainers |-> <<>>]

\* The explainers of _RegressionShapExplainers.__init__, given the outcome
\* bX of building background_X.
BuildExplainers(model, n, bX, shap_method, kwargs) ==
    LET is_mor == model.multi_output
        target_dim == model.input_dim
        pairs == (0..(n - 1)) \X (0..(target_dim - 1))
        Obj(explainers) ==
            [is_multiOutputRegressor |-> is_mor, target_dim |-> target_dim,
             n |-> n, single_output |-> (n = 1 /\ target_dim = 1),
             background_X |-> bX.X, explainers |-> explainers]
        Ex(i, j) ==
            get_explainer_sklearn(
                IF is_mor
                THEN Estimator(model, EstimatorIndex(target_dim, i, j))
                ELSE SklearnModel(model),
                bX.X, shap_method, kwargs)
    IN  IF bX.status # "ok" THEN [status |-> bX.status, obj |-> NoExplainers]
        ELSE IF is_mor /\ \E q \in pairs :
                    EstimatorIndex(target_dim, q[1], q[2]) >= n * target_dim
        THEN [status |-> "IndexError", obj |-> NoExplainers]
        ELSE IF \E q \in pairs : Ex(q[1], q[2]).status # "ok"
        THEN [status |-> "UnboundLocalError", obj |-> NoExplainers]
        ELSE [status |-> "ok",
              obj |-> Obj(IF is_mor
                          THEN [i \in 0..(n - 1) |->
                                  [j \in 0..(target_dim - 1) |->
                                      Ex(i, j).explainer]]
                          ELSE Ex(0, 0).explainer)]

\* _RegressionShapExplainers.__init__
RegressionShapExplainers_init(model, background_series, n, background_past_covariates, background_future_covariates, shap_method, kwargs) ==
    BuildExplainers(
        model, n,
        create_regression_model_shap_X(
            model.lags, background_series, background_past_covariates,
            background_future_covariates, None, <<>>),
        shap_method, kwargs)

\* ndarray.ravel() of a two-dimensional array: its rows one after the other.
ravel(a) == Flatten(a)

\* Calling a shap explainer on X.  The explained model has n_outputs output
\* columns: the attribution values are indexed (row, feature, output) and
\* the base values (row, output); with a single output the values are
\* indexed (row, feature).  Every cell names the model, row, feature and
\* output it is the attribution of.
CallExplainer(explainer, X, n_outputs) ==
    LET Val(r, f, k) ==
            [model |-> explainer.model, t |-> X.index[r],
             feature |-> X.columns[f], output |-> k]
        Base(r, k) ==
            [model |-> explainer.model, t |-> X.index[r], output |-> k]
    IN  [values |->
            IF n_outputs = 1
            THEN [r \in 1..NRows(X) |-> [f \in 1..NCols(X) |-> Val(r, f, 0)]]
            ELSE [r \in 1..NRows(X) |-> [f \in 1..NCols(X) |->
                    [k \in 0..(n_outputs - 1) |-> Val(r, f, k)]]],
         base_values |->
            [r \in 1..NRows(X) |-> [k \in 0..(n_outputs - 1) |-> Base(r, k)]],
         feature_names |-> X.columns]

\* values[:, :, idx] and base_values[:, idx] of a combined output.
SliceValues(values, idx) ==
    [r \in DOMAIN values |-> [f \in DOMAIN values[r] |-> values[r][f][idx]]]

SliceBaseValues(base_values, idx) ==
    [r \in DOMAIN base_values |-> base_values[r][idx]]

\* base_values of a single-output explanation as a (rows x 1) array.
BaseColumn(base_values) ==
    [r \in DOMAIN base_values |-> <<base_values[r][0]>>]

\* One slot of the unified dictionary: the explanation of horizon i and
\* component j, cut out of (or, for a single output, being) what the
\* explainer returned, with the time index of the feature matrix.
Slot(self, raw, foreground_X, i, j) ==
    IF self.is_multiOutputRegressor \/ self.single_output
    THEN [values |-> raw.values,
          base_values |-> ravel(BaseColumn(raw.base_values)),
          feature_names |-> raw.feature_names,
          time_index |-> foreground_X.index]
    ELSE [values |-> SliceValues(raw.values,
                                 OutputIndex(self.target_dim, i, j)),
          base_values |-> SliceBaseValues(raw.base_values,
                                          OutputIndex(self.target_dim, i, j)),
          feature_names |-> raw.feature_names,
          time_index |-> foreground_X.index]

\* Mutant of UnifiedDictionary: the two loops run over each other's range.
UnifiedDictionary_swapped_ranges(self, fX) ==
    IF fX.status # "ok"
    THEN [status |-> fX.status, foreground_X |-> EmptyDF, value |-> <<>>]
    ELSE [status |-> "ok", foreground_X |-> fX.X,
          value |-> [i \in 0..(self.target_dim - 1) |->
                      [j \in 0..(self.n - 1) |->
                        [values |-> <<>>, base_values |-> <<>>,
                         feature_names |-> fX.X.columns,
                         time_index |-> fX.X.index]]]]

\* The unified dictionary horizon -> component -> explanation over the
\* feature matrix build fX, or the failure of that build.
UnifiedDictionary(self, fX) ==
    IF fX.status # "ok"
    THEN [status |-> fX.status, foreground_X |-> EmptyDF, value |-> <<>>]
    ELSE [status |-> "ok", foreground_X |-> fX.X,
          value |-> [i \in 0..(self.n - 1) |->
                      [j \in 0..(self.target_dim - 1) |->
                        Slot(self,
                             IF self.is_multiOutputRegressor
                             THEN CallExplainer(self.explainers[i][j], fX.X, 1)
                             ELSE CallExplainer(self.explainers, fX.X,
                                                self.n * self.target_dim),
                             fX.X, i, j)]]]

\* _RegressionShapExplainers.shap_explanations
shap_explanations(self, model, foreground_series, foreground_past_covariates, foreground_future_covariates, n_samples, pick) ==
    UnifiedDictionary(
        self,
        create_regression_model_shap_X(
            model.lags, foreground_series, foreground_past_covariates,
            foreground_future_covariates, n_samples, pick))

-----------------------------------------------------------------------------
(* ShapExplainer *)

\* ForecastingModelExplainer.__init__ keeps the background series and names
\* the targets after the components of the background target series.
TargetNames(background_series) == background_series[1].columns

NoShapExplainer(status, error) ==
    [status |-> status, error |-> error, n |-> 0, target_names |-> <<>>,
     shap_method |-> None, explainers |-> NoExplainers]

\* The object ShapExplainer.__init__ leaves, given the outcome ex of
\* constructing its _RegressionShapExplainers.
ShapExplainerObject(n, target_names, method, ex) ==
    IF ex.status # "ok" THEN NoShapExplainer(ex.status, "")
    ELSE [status |-> "ok", error |-> "", n |-> n,
          target_names |-> target_names,
          shap_method |-> method, explainers |-> ex.obj]

\* The member of _ShapMethod an accepted shap_method argument names.
MethodOf(shap_method) ==
    IF shap_method # None THEN Some(upper(shap_method[1])) ELSE None

\* ShapExplainer.__init__
ShapExplainer_init(model, background_series, background_past_covariates, background_future_covariates, shap_method, kwargs) ==
    IF ~model.is_regression_model
    THEN NoShapExplainer("ValueError", "Invalid model type")
    ELSE IF shap_method # None /\ upper(shap_method[1]) \notin ShapMethodMembers
    THEN NoShapExplainer("ValueError", "Invalid shap method")
    ELSE ShapExplainerObject(
            model.output_chunk_length, TargetNames(background_series),
            MethodOf(shap_method),
            RegressionShapExplainers_init(
                model, background_series, model.output_chunk_length,
                background_past_covariates, background_future_covariates,
                MethodOf(shap_method), kwargs))

\* TimeSeries.from_times_and_values(times, values, columns=columns)
from_times_and_values(times, values, columns) ==
    [index |-> times, data |-> values, columns |-> columns]

NoShaps == [status |-> "none", foreground_X |-> EmptyDF, value |-> <<>>]

\* The dictionary ShapExplainer.explain builds from shap_, what
\* shap_explanations returned: horizon -> target name -> series.
ShapValuesDict(self, shap_) ==
    LET names == self.target_names
        Idx(t) == (CHOOSE k \in 1..Len(names) : names[k] = t) - 1
    IN  IF shap_.status # "ok"
        THEN [status |-> shap_.status, shaps |-> shap_, value |-> <<>>]
        ELSE IF self.n >= 1 /\ Len(names) > self.explainers.target_dim
        THEN [status |-> "KeyError", shaps |-> shap_, value |-> <<>>]
        ELSE [status |-> "ok", shaps |-> shap_,
              value |-> [h \in 0..(self.n - 1) |-> [t \in Range(names) |->
                  from_times_and_values(shap_.value[h][Idx(t)].time_index,
                                        shap_.value[h][Idx(t)].values,
                                        shap_.value[h][Idx(t)].feature_names)]]]

\* ShapExplainer.explain; without a foreground series the background is
\* explained.  args are the arguments the explainer was constructed with.
explain(self, args, foreground_series, foreground_past_covariates, foreground_future_covariates) ==
    ShapValuesDict(
        self,
        shap_explanations(
            self.explainers, args.model,
            IF foreground_series # None THEN foreground_series[1]
            ELSE args.background_series,
            IF foreground_series # None THEN foreground_past_covariates
            ELSE args.background_past_covariates,
            IF foreground_series # None THEN foreground_future_covariates
            ELSE args.background_future_covariates,
            None, <<>>))

\* The (idx, t, h) the plotting loop of summary_plot goes through, in order.
PlotRequests(target_names, horizons) ==
    Flatten([i \in 1..Len(target_names) |-> [k \in 1..Len(horizons) |->
                [idx |-> i - 1, t |-> target_names[i], h |-> horizons[k]]]])

\* The plotting loop of summary_plot over the requests reqs, reading the
\* dictionary shaps_: it stops with a KeyError at the first request whose
\* horizon or component index is no key.  `plots` lists what was handed to
\* shap.summary_plot, in order, each under its title (the two fields the
\* title is formatted from: the target name and "t+" followed by the
\* horizon); `computed` tells whether the attributions were computed.
PlotAll(shaps_, reqs, foreground_X_sampled) ==
    LET Missing(q) == \/ reqs[q].h \notin DOMAIN shaps_.value
                      \/ reqs[q].idx \notin DOMAIN shaps_.value[reqs[q].h]
        bad == {q \in 1..Len(reqs) : Missing(q)}
        done == IF bad = {} THEN Len(reqs) ELSE MinOf(bad) - 1
    IN  IF shaps_.status # "ok"
        THEN [status |-> shaps_.status, computed |-> FALSE,
              shaps |-> shaps_, plots |-> <<>>]
        ELSE [status |-> IF bad = {} THEN "ok" ELSE "KeyError",
              computed |-> TRUE, shaps |-> shaps_,
              plots |-> [q \in 1..done |->
                  [title |-> [target |-> reqs[q].t,
                              horizon |-> "t+" \o ToString(reqs[q].h)],
                   h |-> reqs[q].h, idx |-> reqs[q].idx,
                   shap |-> shaps_.value[reqs[q].h][reqs[q].idx],
                   X |-> foreground_X_sampled]]]

\* The two checks summary_plot makes of its arguments before anything else.
SummaryPlotRejects(self, target_names, horizons) ==
    \/ /\ target_names # None
       /\ \E k \in 1..Len(target_names[1]) :
             target_names[1][k] \notin Range(self.target_names)
    \/ /\ horizons # None
       /\ \/ horizons[1] = <<>>
          \/ MaxOf(Range(horizons[1])) > self.n - 1

\* ShapExplainer.summary_plot
summary_plot(self, args, target_names, horizons, nb_samples, pick) ==
    IF SummaryPlotRejects(self, target_names, horizons)
    THEN [status |-> "ValueError", computed |-> FALSE, shaps |-> NoShaps,
          plots |-> <<>>]
    ELSE PlotAll(
            shap_explanations(
                self.explainers, args.model, args.background_series,
                args.background_past_covariates,
                args.background_future_covariates, nb_samples, pick),
            PlotRequests(
                IF target_names = None THEN self.target_names
                ELSE target_names[1],
                IF horizons = None
                THEN [k \in 1..args.model.output_chunk_length |-> k - 1]
                ELSE horizons[1]),
            IF TruthyInt(nb_samples)
            THEN sample(self.explainers.background_X, nb_samples[1], pick)
            ELSE self.explainers.background_X)

-----------------------------------------------------------------------------
(* DifferenceScorer.  A series is [index, columns, n_samples, data] with    *)
(* data indexed (time, component, sample); it is deterministic when it has *)
(* one sample.                                                             *)

\* AnomalyScorer._assert_deterministic passes on a deterministic series and
\* raises on any other.
is_deterministic(series) == series.n_samples = 1

\* TimeSeries.__sub__: the pointwise difference, on the time index and the
\* components of the left operand.
TimeSeriesSub(a, b) ==
    [index |-> a.index, columns |-> a.columns, n_samples |-> a.n_samples,
     data |-> [t \in DOMAIN a.data |-> [c \in DOMAIN a.data[t] |->
                 [k \in DOMAIN a.data[t][c] |->
                     a.data[t][c][k] - b.data[t][c][k]]]]]

NoSeries == [index |-> <<>>, columns |-> <<>>, n_samples |-> 0, data |-> <<>>]

\* Mutant of score_core_from_prediction: pred_series is not checked.
score_core_pred_unchecked(actual_series, pred_series) ==
    IF ~is_deterministic(actual_series)
    THEN [status |-> "ValueError", failed |-> "actual_series",
          value |-> NoSeries]
    ELSE [status |-> "ok", failed |-> "",
          value |-> TimeSeriesSub(actual_series, pred_series)]

\* DifferenceScorer._score_core_from_prediction
score_core_from_prediction(actual_series, pred_series) ==
    IF ~is_deterministic(actual_series)
    THEN [status |-> "ValueError", failed |-> "actual_series",
          value |-> NoSeries]
    ELSE IF ~is_deterministic(pred_series)
    THEN [status |-> "ValueError", failed |-> "pred_series",
          value |-> NoSeries]
    ELSE [status |-> "ok", failed |-> "",
          value |-> TimeSeriesSub(actual_series, pred_series)]

-----------------------------------------------------------------------------
(* Croston.__init__ *)

CLASSIC == <<"c", "l", "a", "s", "s", "i", "c">>

OPTIMIZED == <<"o", "p", "t", "i", "m", "i", "z", "e", "d">>

SBA == <<"s", "b", "a">>

TSB == <<"t", "s", "b">>

NoCroston(status, error) ==
    [status |-> status, error |-> error, model |-> "", model_alpha_d |-> None,
     model_alpha_p |-> None, version |-> <<>>]

\* Croston.__init__: the object it leaves (the statsforecast model it
\* built, the parameters that model was given, self.version) or the
\* ValueError it raises.
Croston_init(version, alpha_d, alpha_p) ==
    LET Built(model, a_d, a_p) ==
            [status |-> "ok", error |-> "", model |-> model,
             model_alpha_d |-> a_d, model_alpha_p |-> a_p, version |-> version]
    IN  IF lower(version) \notin {CLASSIC, OPTIMIZED, SBA, TSB}
        THEN NoCroston("ValueError", "version")
        ELSE IF version = CLASSIC THEN Built("CrostonClassic", None, None)
        ELSE IF version = OPTIMIZED THEN Built("CrostonOptimized", None, None)
        ELSE IF version = SBA THEN Built("CrostonSBA", None, None)
        ELSE IF alpha_d = None \/ alpha_p = None
        THEN NoCroston("ValueError", "alpha_d and alpha_p")
        ELSE Built("TSB", alpha_d, alpha_p)

-----------------------------------------------------------------------------
(* Inputs of the feature-matrix specification *)

ComponentNames == <<"a", "b", "c", "d">>

\* Series number k with components `names` observed at start, start+1, ...,
\* start+N-1; the cells listed in `missing` (<<row, column>>) hold NaN.
MkSeries(k, names, start, N, missing) ==
    [columns |-> names,
     index   |-> [r \in 1..N |-> start + r - 1],
     data    |-> [r \in 1..N |-> [c \in 1..Len(names) |->
                    IF <<r, c>> \in missing THEN NaN
                    ELSE <<k, names[c], start + r - 1>>]]]

\* Lag lists as the regression model keeps them: ascending, without repeats.
LagLists(S) == {SortedSeq(T) : T \in SUBSET S}

TargetLagLists == LagLists((-MaxLag) .. (-1))

PastLagLists == {<<>>, <<-1>>, <<-2, -1>>}

FutureLagLists == {<<>>, <<0>>, <<-1, 1>>}

\* Target series: every length and width within the bounds, complete or with
\* one missing observation of the first component.
TargetSeriesSet ==
    UNION {{MkSeries(1, SubSeq(ComponentNames, 1, nc), 0, N, m) :
               m \in {{}} \cup {{<<r, 1>>} : r \in 1..N}} :
           <<N, nc>> \in (1..MaxLen) \X (1..MaxComp)}

\* Covariates offered with a target series of length N: none, one on the
\* target's time index, one starting a step later.
CovariateChoices(name, N) ==
    {None,
     Some(<<MkSeries(1, <<name>>, 0, N, {})>>),
     Some(<<MkSeries(1, <<name>>, 1, N, {})>>)}

SampleChoices == {None, Some(0), Some(1), Some(2)}

BxInputs ==
    UNION {[lags : [target : TargetLagLists, past : PastLagLists,
                    future : FutureLagLists],
            target_series : {<<ts>>},
            past_covariates : CovariateChoices("p", NRows(ts)),
            future_covariates : CovariateChoices("f", NRows(ts)),
            n_samples : SampleChoices] : ts \in TargetSeriesSet}

\* Calls on a list of several target series.
MaxSeries == 2

\* The length of the k-th series of a list whose first series has length N:
\* the lengths of a list differ.
SeriesLen(N, k) == ((N + k - 2) % MaxLen) + 1

\* Lists of K >= 2 complete target series of the same components; every
\* series starts at time 0, so that the series of a list share timestamps.
TargetSeriesLists ==
    {[k \in 1..K |-> MkSeries(k, SubSeq(ComponentNames, 1, nc), 0,
                              SeriesLen(N, k), {})] :
        <<K, N, nc>> \in (2..MaxSeries) \X (1..MaxLen) \X (1..MaxComp)}

\* The k-th covariate series offered with the list tss: on the time index of
\* the k-th target series.
CovariateFor(name, tss, k) ==
    MkSeries(k, <<name>>, tss[k].index[1], NRows(tss[k]), {})

\* Covariates offered with the list tss: none, one series per target series,
\* a list that is one series short.
CovariateLists(name, tss) ==
    {None,
     Some([k \in 1..Len(tss) |-> CovariateFor(name, tss, k)]),
     Some([k \in 1..(Len(tss) - 1) |-> CovariateFor(name, tss, k)])}

BxListInputs ==
    UNION {[lags : [target : TargetLagLists, past : PastLagLists,
                    future : FutureLagLists],
            target_series : {tss},
            past_covariates : CovariateLists("p", tss),
            future_covariates : CovariateLists("f", tss),
            n_samples : SampleChoices] : tss \in TargetSeriesLists}

BxPending == [status |-> "pending", X |-> EmptyDF]

-----------------------------------------------------------------------------
(* The feature-matrix specification: one call of the builder *)

\* Nothing was called or constructed yet.
IdleBx == bx_in = [called |-> FALSE] /\ bx_out = BxPending

IdleSx ==
    /\ sx_in = [constructed |-> FALSE]
    /\ sx = NoShapExplainer("none", "")
    /\ call = [op |-> "none"]

IdleSc ==
    /\ sc_in = [called |-> FALSE]
    /\ sc_out = [status |-> "pending", failed |-> "", value |-> NoSeries]

IdleCr == cr_in = [constructed |-> FALSE] /\ cr = NoCroston("none", "")

InitX ==
    /\ bx_in \in BxInputs \cup BxListInputs
    /\ bx_out = BxPending
    /\ IdleSx /\ IdleSc /\ IdleCr

CreateRegressionModelShapX ==
    /\ bx_out = BxPending
    /\ \E pick \in Picks(StackedX(bx_in.lags, bx_in.target_series,
                                  bx_in.past_covariates,
                                  bx_in.future_covariates).X,
                         bx_in.n_samples) :
          bx_out' = create_regression_model_shap_X(
                        bx_in.lags, bx_in.target_series, bx_in.past_covariates,
                        bx_in.future_covariates, bx_in.n_samples, pick)
    /\ UNCHANGED <<bx_in, sxVars, scVars, crVars>>

NextX == CreateRegressionModelShapX

SpecX == InitX /\ [][NextX]_vars

-----------------------------------------------------------------------------
(* Inputs of the explainer specification *)

MaxOutputChunk == 2

\* shap_method strings: the documented names, other members of _ShapMethod,
\* other letter cases, and names that are no member.
MethodNames ==
    {<<"t", "r", "e", "e">>,
     <<"p", "e", "r", "m", "u", "t", "a", "t", "i", "o", "n">>,
     <<"p", "a", "r", "t", "i", "t", "i", "o", "n">>,
     <<"k", "e", "r", "n", "e", "l">>,
     <<"s", "a", "m", "p", "l", "i", "n", "g">>,
     <<"l", "i", "n", "e", "a", "r">>,
     <<"d", "e", "e", "p">>,
     <<"g", "r", "a", "d", "i", "e", "n", "t">>,
     <<"a", "d", "d", "i", "t", "i", "v", "e">>,
     <<"T", "r", "e", "e">>,
     <<"K", "E", "R", "N", "E", "L">>,
     <<"L", "i", "n", "e", "a", "r">>,
     <<"e", "x", "a", "c", "t">>,
     <<>>}

\* (class of the sklearn estimator, shap_method, feature_perturbation kwarg)
ExplainerChoices ==
    ({"LinearRegression", "LGBMRegressor", "RidgeCV", "SVR"} \X {None} \X {None})
    \cup ({"LinearRegression"} \X {Some(m) : m \in MethodNames} \X {None})
    \cup ({"LGBMRegressor"} \X {Some(TREE)}
            \X {Some("interventional"), Some("tree_path_dependent")})

\* Fitted regression models: horizons, target components, whether the
\* sklearn model is a MultiOutputRegressor, target lags.
Models(estimator_class) ==
    [is_regression_model : BOOLEAN,
     output_chunk_length : 1..MaxOutputChunk,
     input_dim : 1..MaxComp,
     multi_output : BOOLEAN,
     estimator_class : {estimator_class},
     lags : [target : {<<-1>>, <<-2, -1>>}, past : {<<>>}, future : {<<>>}]]

\* The background target series of a model: complete, with the model's
\* components, of the greatest length.
BackgroundOf(model) ==
    <<MkSeries(1, SubSeq(ComponentNames, 1, model.input_dim), 0, MaxLen, {})>>

\* Another series of the same components, to explain.
ForegroundOf(model) ==
    <<MkSeries(2, SubSeq(ComponentNames, 1, model.input_dim), 5, MaxLen, {})>>

SxInputs ==
    UNION {[model : Models(ch[1]),
            shap_method : {ch[2]},
            kwargs : [feature_perturbation : {ch[3]}]] : ch \in ExplainerChoices}

SxArgs(in) ==
    [model |-> in.model, shap_method |-> in.shap_method, kwargs |-> in.kwargs,
     background_series |-> BackgroundOf(in.model),
     background_past_covariates |-> None,
     background_future_covariates |-> None]

\* target_names arguments of summary_plot: none, sub-lists and reorderings of
\* the explainer's names, and lists with an unknown name.
TargetNameChoices(names) ==
    {None}
    \cup {Some(<<names[k]>>) : k \in 1..Len(names)}
    \cup {Some(<<names[k], names[m]>>) :
            <<k, m>> \in {q \in (1..Len(names)) \X (1..Len(names)) : q[1] # q[2]}}
    \cup {Some(<<"z">>), Some(<<names[1], "z">>)}

\* horizons arguments of summary_plot for a model of n horizons.
HorizonChoices(n) ==
    {None, Some(<<>>), Some(<<-1>>), Some(<<n>>), Some(<<0, n>>)}
    \cup {Some(<<h>>) : h \in 0..(n - 1)}
    \cup {Some([k \in 1..n |-> n - k])}

-----------------------------------------------------------------------------
(* The explainer specification: a ShapExplainer is constructed and, when    *)
(* that succeeds, one of its methods is called.  The methods leave the     *)
(* object as it is, so one call per behaviour shows all they do.           *)

Init == IdleBx /\ IdleSx /\ IdleSc /\ IdleCr

ShapExplainerInit ==
    /\ sx.status = "none"
    /\ \E in \in SxInputs :
          LET a == SxArgs(in)
          IN  /\ sx_in' = a
              /\ sx' = ShapExplainer_init(
                          a.model, a.background_series,
                          a.background_past_covariates,
                          a.background_future_covariates, a.shap_method, a.kwargs)
    /\ UNCHANGED <<bxVars, call, scVars, crVars>>

ShapExplanations ==
    /\ sx.status = "ok" /\ call.op = "none"
    /\ \E fs \in {sx_in.background_series, ForegroundOf(sx_in.model)} :
       \E n_samples \in {None, Some(1)} :
       \E pick \in Picks(sx.explainers.background_X, n_samples) :
          call' = [op |-> "shap_explanations",
                   args |-> [foreground_series |-> fs, n_samples |-> n_samples],
                   out |-> shap_explanations(sx.explainers, sx_in.model, fs,
                                             None, None, n_samples, pick)]
    /\ UNCHANGED <<bxVars, sx_in, sx, scVars, crVars>>

Explain ==
    /\ sx.status = "ok" /\ call.op = "none"
    /\ \E fs \in {None, Some(ForegroundOf(sx_in.model))} :
          call' = [op |-> "explain",
                   args |-> [foreground_series |-> fs],
                   out |-> explain(sx, sx_in, fs, None, None)]
    /\ UNCHANGED <<bxVars, sx_in, sx, scVars, crVars>>

SummaryPlot ==
    /\ sx.status = "ok" /\ call.op = "none"
    /\ \E target_names \in TargetNameChoices(sx.target_names) :
       \E horizons \in HorizonChoices(sx.n) :
       \E nb_samples \in {None, Some(1)} :
       \E pick \in Picks(sx.explainers.background_X, nb_samples) :
          call' = [op |-> "summary_plot",
                   args |-> [target_names |-> target_names,
                             horizons |-> horizons, nb_samples |-> nb_samples],
                   out |-> summary_plot(sx, sx_in, target_names, horizons,
                                        nb_samples, pick)]
    /\ UNCHANGED <<bxVars, sx_in, sx, scVars, crVars>>

Next ==
    \/ ShapExplainerInit
    \/ ShapExplanations
    \/ Explain
    \/ SummaryPlot

Spec == Init /\ [][Next]_vars

-----------------------------------------------------------------------------
(* The scorer specification: one call of _score_core_from_prediction on two *)
(* series that share their time index and their components                 *)

MaxScoreLen == 2

ScoreWidths == {1, 2}

ScoreValues == {0, 2}

\* The series of n_samples samples over `len` steps and `width` components
\* whose first sample is `base`; sample k lies k - 1 above it.
MkScored(len, width, n_samples, base) ==
    [index |-> [t \in 1..len |-> t - 1],
     columns |-> SubSeq(ComponentNames, 1, width),
     n_samples |-> n_samples,
     data |-> [t \in 1..len |-> [c \in 1..width |->
                 [k \in 1..n_samples |-> base[t][c] + k - 1]]]]

ScoredSeries(len, width) ==
    {MkScored(len, width, n_samples, base) :
        n_samples \in {1, 2},
        base \in [1..len -> [1..width -> ScoreValues]]}

ScInputs ==
    UNION {[actual_series : ScoredSeries(q[1], q[2]),
            pred_series : ScoredSeries(q[1], q[2])] :
           q \in (1..MaxScoreLen) \X ScoreWidths}

InitScorer ==
    /\ sc_in \in ScInputs
    /\ sc_out = [status |-> "pending", failed |-> "", value |-> NoSeries]
    /\ IdleBx /\ IdleSx /\ IdleCr

ScoreCoreFromPrediction ==
    /\ sc_out.status = "pending"
    /\ sc_out' = score_core_from_prediction(sc_in.actual_series,
                                            sc_in.pred_series)
    /\ UNCHANGED <<sc_in, bxVars, sxVars, crVars>>

NextScorer == ScoreCoreFromPrediction

SpecScorer == InitScorer /\ [][NextScorer]_vars

-----------------------------------------------------------------------------
(* The Croston specification: one construction *)

MaxAlpha == 2

\* version strings: the four documented ones, other letter cases of them,
\* and strings that name no version.
VersionStrings ==
    {<<"c", "l", "a", "s", "s", "i", "c">>,
     <<"o", "p", "t", "i", "m", "i", "z", "e", "d">>,
     <<"s", "b", "a">>,
     <<"t", "s", "b">>,
     <<"C", "l", "a", "s", "s", "i", "c">>,
     <<"O", "P", "T", "I", "M", "I", "Z", "E", "D">>,
     <<"S", "B", "A">>,
     <<"T", "s", "b">>,
     <<"T", "S", "B">>,
     <<"c", "r", "o", "s", "t", "o", "n">>,
     <<"c", "l", "a", "s", "s", "i", "c", "2">>,
     <<>>}

\* alpha_d and alpha_p: absent, or one of a few smoothing parameters.
AlphaChoices == {None} \cup {Some(a) : a \in 1..MaxAlpha}

InitCroston ==
    /\ cr_in \in [version : VersionStrings, alpha_d : AlphaChoices,
                  alpha_p : AlphaChoices]
    /\ cr = NoCroston("none", "")
    /\ IdleBx /\ IdleSx /\ IdleSc

CrostonInit ==
    /\ cr.status = "none"
    /\ cr' = Croston_init(cr_in.version, cr_in.alpha_d, cr_in.alpha_p)
    /\ UNCHANGED <<cr_in, bxVars, sxVars, scVars>>

NextCroston == CrostonInit

SpecCroston == InitCroston /\ [][NextCroston]_vars

-----------------------------------------------------------------------------
(* Properties of the feature matrix (checked under SpecX) *)

BxDone == bx_out # BxPending

\* The series has an observation (not NaN) of component c at time t.
Defined(ts, t, c) ==
    \E r \in 1..NRows(ts) : ts.index[r] = t /\ ts.data[r][c] # NaN

\* The value the series holds for component c at time t.
ValueAt(ts, t, c) ==
    ts.data[CHOOSE r \in 1..NRows(ts) : ts.index[r] = t][c]

\* Row t of the series has a complete lag window: t is one of its timestamps
\* and every component is observed at t + lag for every lag of the list.
CompleteAt(ts, lag_list, t) ==
    /\ t \in Range(ts.index)
    /\ \A k \in 1..Len(lag_list) : \A c \in 1..NCols(ts) :
          Defined(ts, t + lag_list[k], c)

MaxLagMagnitude(lag_list) == MaxOf({Abs(lag_list[k]) : k \in 1..Len(lag_list)})

HasMissing(ts) ==
    \E r \in 1..NRows(ts) : \E c \in 1..NCols(ts) : ts.data[r][c] = NaN

\* The call is the case of C4: one target series, target lags, no covariates,
\* no covariate lags, no sampling.
TargetOnlyCall ==
    /\ Len(bx_in.target_series) = 1
    /\ bx_in.lags.target # <<>>
    /\ bx_in.lags.past = <<>> /\ bx_in.lags.future = <<>>
    /\ bx_in.past_covariates = None /\ bx_in.future_covariates = None
    /\ ~TruthyInt(bx_in.n_samples)

\* C4 as stated: a single target series of length N without covariates and
\* with target lags of maximum magnitude L always yields exactly N - L rows.
C4_AlwaysNMinusL ==
    (BxDone /\ TargetOnlyCall) =>
        /\ bx_out.status = "ok"
        /\ NRows(bx_out.X) =
              NRows(bx_in.target_series[1]) - MaxLagMagnitude(bx_in.lags.target)

\* C4 amended: the kept rows are exactly the timestamps t of the series, in
\* order, at which every component is observed at t + lag for every configured
\* lag, and each cell holds that observation; for a series without missing
\* values this is N - L rows when N >= L and no row when N < L.
C4_RowsAreCompleteWindows ==
    (BxDone /\ TargetOnlyCall) =>
        LET ts == bx_in.target_series[1]
            tl == bx_in.lags.target
            N  == NRows(ts)
            L  == MaxLagMagnitude(tl)
            X  == bx_out.X
        IN  /\ bx_out.status = "ok"
            /\ X.index = SortedSeq({t \in Range(ts.index) : CompleteAt(ts, tl, t)})
            /\ \A r \in 1..NRows(X) : \A k \in 1..Len(tl) : \A c \in 1..NCols(ts) :
                  X.data[r][(k - 1) * NCols(ts) + c]
                      = ValueAt(ts, X.index[r] + tl[k], c)
            /\ ~HasMissing(ts) => NRows(X) = (IF N >= L THEN N - L ELSE 0)

\* Witness of C4: a complete series longer than its largest lag was built
\* into N - L >= 1 rows.
C4_Witness ==
    /\ BxDone /\ TargetOnlyCall
    /\ ~HasMissing(bx_in.target_series[1])
    /\ Len(bx_in.lags.target) = 2
    /\ NRows(bx_in.target_series[1]) > MaxLagMagnitude(bx_in.lags.target)
    /\ NRows(bx_out.X) =
          NRows(bx_in.target_series[1]) - MaxLagMagnitude(bx_in.lags.target)

\* The number of components of an Optional covariate list's first series.
CovWidth(opt) == IF Truthy(opt) THEN NCols(opt[1][1]) ELSE 0

\* C5: the columns are the target-lag columns (lag-major, component-minor),
\* then the past-covariate-lag columns, then the future-covariate-lag columns;
\* their number is the sum over the classes of lags x components; each name
\* is the component name followed by the class and the lag.
C5_ColumnOrderAndNames ==
    (BxDone /\ bx_out.status = "ok") =>
        LET lg  == bx_in.lags
            ts  == bx_in.target_series[1]
            nt  == NCols(ts)
            np  == CovWidth(bx_in.past_covariates)
            nf  == CovWidth(bx_in.future_covariates)
            offP == Len(lg.target) * nt
            offF == offP + Len(lg.past) * np
            cols == bx_out.X.columns
        IN  /\ Len(cols) = Len(lg.target) * nt + Len(lg.past) * np
                                + Len(lg.future) * nf
            /\ \A k \in 1..Len(lg.target) : \A c \in 1..nt :
                  cols[(k - 1) * nt + c]
                      = ts.columns[c] \o "_target_lag" \o ToString(lg.target[k])
            /\ \A k \in 1..Len(lg.past) : \A c \in 1..np :
                  cols[offP + (k - 1) * np + c]
                      = bx_in.past_covariates[1][1].columns[c]
                          \o "_past_cov_lag" \o ToString(lg.past[k])
            /\ \A k \in 1..Len(lg.future) : \A c \in 1..nf :
                  cols[offF + (k - 1) * nf + c]
                      = bx_in.future_covariates[1][1].columns[c]
                          \o "_fut_cov_lag" \o ToString(lg.future[k])

\* Witness of C5: a matrix with columns of all three classes, two target
\* lags of two components among them.
C5_Witness ==
    /\ BxDone /\ bx_out.status = "ok"
    /\ bx_in.lags.target = <<-2, -1>>
    /\ NCols(bx_in.target_series[1]) = 2
    /\ bx_in.lags.past # <<>> /\ bx_in.lags.future = <<-1, 1>>
    /\ bx_out.X.columns[2] = "b_target_lag-2"
    /\ bx_out.X.columns[3] = "a_target_lag-1"
    /\ bx_out.X.columns[NCols(bx_out.X)] = "f_fut_cov_lag1"

\* Every feature class with lags has its series, and some lag is configured:
\* nothing makes the build raise.
BxWellConfigured ==
    /\ bx_in.target_series # <<>>
    /\ bx_in.lags.past # <<>> => Truthy(bx_in.past_covariates)
    /\ bx_in.lags.future # <<>> => Truthy(bx_in.future_covariates)
    /\ Truthy(bx_in.past_covariates) =>
          Len(bx_in.past_covariates[1]) >= Len(bx_in.target_series)
    /\ Truthy(bx_in.future_covariates) =>
          Len(bx_in.future_covariates[1]) >= Len(bx_in.target_series)
    /\ \/ bx_in.lags.target # <<>>
       \/ bx_in.lags.past # <<>>
       \/ bx_in.lags.future # <<>>

\* The timestamps, over the tables of the idx-th series that take part (the
\* feature classes with lags), whose lag windows are complete in every one.
CompleteRows(idx) ==
    LET tsT == bx_in.target_series[idx]
        tsP == bx_in.past_covariates[1][idx]
        tsF == bx_in.future_covariates[1][idx]
        labels ==
            (IF bx_in.lags.target # <<>> THEN Range(tsT.index) ELSE {})
            \cup (IF bx_in.lags.past # <<>> THEN Range(tsP.index) ELSE {})
            \cup (IF bx_in.lags.future # <<>> THEN Range(tsF.index) ELSE {})
    IN  {t \in labels :
            /\ bx_in.lags.target # <<>> => CompleteAt(tsT, bx_in.lags.target, t)
            /\ bx_in.lags.past # <<>> => CompleteAt(tsP, bx_in.lags.past, t)
            /\ bx_in.lags.future # <<>> => CompleteAt(tsF, bx_in.lags.future, t)}

\* C10 as stated: a returned feature matrix always has at least one row (the
\* build fails rather than return an empty matrix).
C10_NeverEmpty ==
    (BxDone /\ bx_out.status = "ok") => NRows(bx_out.X) >= 1

\* C10 amended: the builder does not check the row count.  A well-configured
\* call always returns; when no row has a complete lag window (e.g. the
\* series is not longer than the largest lag) it returns a matrix with all
\* its columns and zero rows instead of failing, and it returns at least one
\* row exactly when some row is complete.
C10_EmptyMatrixIsReturned ==
    (BxDone /\ BxWellConfigured) =>
        /\ bx_out.status = "ok"
        /\ NCols(bx_out.X) >= 1
        /\ (NRows(bx_out.X) = 0) <=>
              (\A idx \in 1..Len(bx_in.target_series) : CompleteRows(idx) = {})

\* Witness of C10: a series no longer than its largest target lag was built
\* into a matrix with columns and no row.
C10_Witness ==
    /\ BxDone /\ TargetOnlyCall
    /\ NRows(bx_in.target_series[1]) <= MaxLagMagnitude(bx_in.lags.target)
    /\ bx_out.status = "ok"
    /\ NRows(bx_out.X) = 0
    /\ NCols(bx_out.X) >= 1

\* A covariate class (past or future) has lags declared and no series given.
DeclaredButAbsent ==
    \/ bx_in.lags.past # <<>> /\ bx_in.past_covariates = None
    \/ bx_in.lags.future # <<>> /\ bx_in.future_covariates = None

\* The call with the covariates of the classes without lags taken away.
WithoutUnusedCovariates ==
    StackedX(bx_in.lags, bx_in.target_series,
             IF bx_in.lags.past = <<>> THEN None ELSE bx_in.past_covariates,
             IF bx_in.lags.future = <<>> THEN None ELSE bx_in.future_covariates)

\* C11: when a covariate class has a non-empty lag list and its series is
\* None the build ends in a failure, it never returns a matrix; and a
\* returned matrix has no column of a class without lags, whether or not a
\* series of the class was supplied: its columns are those of the same call
\* without that series, lags x components for the classes with lags.
C11_DeclaredClassNeedsSeries ==
    BxDone =>
        /\ DeclaredButAbsent => bx_out.status \in {"AttributeError", "IndexError"}
        /\ bx_out.status = "ok" =>
              /\ bx_out.X.columns = WithoutUnusedCovariates.X.columns
              /\ NCols(bx_out.X) =
                    Len(bx_in.lags.target) * NCols(bx_in.target_series[1])
                    + (IF bx_in.lags.past = <<>> THEN 0
                       ELSE Len(bx_in.lags.past) * CovWidth(bx_in.past_covariates))
                    + (IF bx_in.lags.future = <<>> THEN 0
                       ELSE Len(bx_in.lags.future)
                               * CovWidth(bx_in.future_covariates))

\* Witness of C11: past lags were declared, no past covariates were given,
\* future covariates were given without future lags, and the call on a series
\* with target lags failed on the missing past covariates.
C11_Witness ==
    /\ BxDone
    /\ bx_in.lags.target # <<>>
    /\ bx_in.lags.past # <<>> /\ bx_in.past_covariates = None
    /\ bx_in.lags.future = <<>> /\ Truthy(bx_in.future_covariates)
    /\ bx_out.status = "AttributeError"

\* A call that returned a matrix and asked for no sample limit.
BuiltUnsampled ==
    BxDone /\ bx_out.status = "ok" /\ ~TruthyInt(bx_in.n_samples)

\* The k-th series of an Optional covariate list, as a list of its own.
OnlySeries(opt, k) == IF Truthy(opt) THEN Some(<<opt[1][k]>>) ELSE opt

\* The matrix of the k-th target series and its covariates built alone.
BuiltAlone(k) ==
    StackedX(bx_in.lags, <<bx_in.target_series[k]>>,
             OnlySeries(bx_in.past_covariates, k),
             OnlySeries(bx_in.future_covariates, k)).X

\* For every row of the stacked matrix, the number of the series it is of:
\* the complete rows of series 1, then those of series 2, ...
BlockOfRow ==
    Flatten([k \in 1..Len(bx_in.target_series) |->
                [i \in 1..Cardinality(CompleteRows(k)) |-> k]])

\* Row r of matrix X holds, class after class and lag after lag, the
\* observations of the k-th target, past and future series at X.index[r] + lag.
RowIsOfSeries(X, r, k) ==
    LET lg == bx_in.lags
        t  == X.index[r]
        nt == NCols(bx_in.target_series[k])
        np == CovWidth(bx_in.past_covariates)
        nf == CovWidth(bx_in.future_covariates)
        offP == Len(lg.target) * nt
        offF == offP + Len(lg.past) * np
    IN  /\ \A j \in 1..Len(lg.target) : \A c \in 1..nt :
              X.data[r][(j - 1) * nt + c]
                  = ValueAt(bx_in.target_series[k], t + lg.target[j], c)
        /\ \A j \in 1..Len(lg.past) : \A c \in 1..np :
              X.data[r][offP + (j - 1) * np + c]
                  = ValueAt(bx_in.past_covariates[1][k], t + lg.past[j], c)
        /\ \A j \in 1..Len(lg.future) : \A c \in 1..nf :
              X.data[r][offF + (j - 1) * nf + c]
                  = ValueAt(bx_in.future_covariates[1][k], t + lg.future[j], c)

\* C12: for a list of K target series and no sample limit, the matrix is the
\* K row blocks one after the other in input order, block k being the matrix
\* of the k-th target series with the k-th past and k-th future covariate
\* series built alone (a given covariate list has a series for every target
\* series); every cell of block k is an observation of the k-th
\* series; timestamps the series share appear once per series (no merge); the
\* row count is the sum of the K per-series row counts.
C12_StackedIndependentBlocks ==
    BuiltUnsampled =>
        LET X == bx_out.X
            K == Len(bx_in.target_series)
        IN  /\ Truthy(bx_in.past_covariates) =>
                  Len(bx_in.past_covariates[1]) >= K
            /\ Truthy(bx_in.future_covariates) =>
                  Len(bx_in.future_covariates[1]) >= K
            /\ X.index = Flatten([k \in 1..K |-> BuiltAlone(k).index])
            /\ X.data = Flatten([k \in 1..K |-> BuiltAlone(k).data])
            /\ X.index = Flatten([k \in 1..K |-> SortedSeq(CompleteRows(k))])
            /\ \A r \in 1..NRows(X) : RowIsOfSeries(X, r, BlockOfRow[r])
            /\ NRows(X) = Len(Flatten([k \in 1..K |-> BuiltAlone(k).index]))

\* Witness of C12: two target series with past covariates and past lags were
\* built without a sample limit into two non-empty blocks, and a timestamp
\* the two series share appears in both blocks.
C12_Witness ==
    /\ BuiltUnsampled
    /\ Len(bx_in.target_series) = 2
    /\ bx_in.lags.target # <<>> /\ bx_in.lags.past # <<>>
    /\ NRows(BuiltAlone(1)) >= 1 /\ NRows(BuiltAlone(2)) >= 1
    /\ NRows(bx_out.X) = NRows(BuiltAlone(1)) + NRows(BuiltAlone(2))
    /\ \E r1, r2 \in 1..NRows(bx_out.X) :
          /\ r1 <= NRows(BuiltAlone(1)) /\ r2 > NRows(BuiltAlone(1))
          /\ bx_out.X.index[r1] = bx_out.X.index[r2]
          /\ bx_out.X.data[r1] # bx_out.X.data[r2]

-----------------------------------------------------------------------------
(* Properties of the explainer (checked under Spec) *)

\* What shap_explanations returned in the last call, whichever method made it.
LastShaps ==
    IF call.op = "shap_explanations" THEN call.out ELSE call.out.shaps

ShapsReturned == call.op # "none" /\ LastShaps.status = "ok"

Horizons == 0..(sx.n - 1)

Components == 0..(sx.explainers.target_dim - 1)

CombinedLayout ==
    /\ ~sx.explainers.is_multiOutputRegressor
    /\ sx.n * sx.explainers.target_dim > 1

\* C1: in the combined-output layout with more than one output, the
\* explanation of horizon i and component j holds, for every row and
\* feature, the attribution value and the base value of output
\* target_dim * i + j of the explained model; distinct (i, j) read distinct
\* outputs and together they read every output 0 .. horizons*target_dim - 1.
C1_CombinedSliceIndex ==
    (ShapsReturned /\ CombinedLayout) =>
        LET X == LastShaps.foreground_X
            td == sx.explainers.target_dim
            e(i, j) == LastShaps.value[i][j]
            Out(i, j) == e(i, j).base_values[1].output
        IN  /\ NRows(X) >= 1
            /\ \A i \in Horizons : \A j \in Components :
                  /\ \A r \in 1..NRows(X) :
                        /\ e(i, j).base_values[r] =
                              [model |-> <<"model", 0>>, t |-> X.index[r],
                               output |-> td * i + j]
                        /\ \A f \in 1..NCols(X) :
                              e(i, j).values[r][f] =
                                  [model |-> <<"model", 0>>, t |-> X.index[r],
                                   feature |-> X.columns[f],
                                   output |-> td * i + j]
            /\ {Out(q[1], q[2]) : q \in Horizons \X Components}
                  = 0..(sx.n * td - 1)
            /\ \A q1, q2 \in Horizons \X Components :
                  q1 # q2 => Out(q1[1], q1[2]) # Out(q2[1], q2[2])

\* Witness of C1: two horizons of two components were cut out of a combined
\* output; the last slot holds output 3.
C1_Witness ==
    /\ call.op = "shap_explanations" /\ call.out.status = "ok"
    /\ CombinedLayout
    /\ sx.n = 2 /\ sx.explainers.target_dim = 2
    /\ call.out.value[1][1].base_values[1].output = 3
    /\ call.out.value[1][0].values[1][1].output = 2

\* C2: in the per-output-estimator layout every (horizon i, component j)
\* has an explainer of its own estimator, the one at position
\* target_dim * i + j of the estimator list; no two pairs share one.
C2_OneEstimatorPerPair ==
    (sx.status = "ok" /\ sx.explainers.is_multiOutputRegressor) =>
        LET ex == sx.explainers.explainers
            td == sx.explainers.target_dim
        IN  /\ \A i \in Horizons : \A j \in Components :
                  ex[i][j].model = <<"estimators_", td * i + j>>
            /\ \A q1, q2 \in Horizons \X Components :
                  q1 # q2 => ex[q1[1]][q1[2]].model # ex[q2[1]][q2[2]].model

\* C3: in both layouts the dictionary shap_explanations returns has exactly
\* the horizons 0 .. n-1 as keys and under each exactly the components
\* 0 .. target_dim-1, every slot carrying the row index of the feature
\* matrix; explain() then returns an entry for every horizon and every
\* target name, on that index.
C3_UniformNestedMapping ==
    ShapsReturned =>
        LET n  == sx_in.model.output_chunk_length
            td == sx_in.model.input_dim
            v  == LastShaps.value
        IN  /\ DOMAIN v = 0..(n - 1)
            /\ \A i \in 0..(n - 1) :
                  /\ DOMAIN v[i] = 0..(td - 1)
                  /\ \A j \in 0..(td - 1) :
                        v[i][j].time_index = LastShaps.foreground_X.index
            /\ call.op = "explain" =>
                  /\ call.out.status = "ok"
                  /\ DOMAIN call.out.value = 0..(n - 1)
                  /\ \A h \in 0..(n - 1) :
                        /\ DOMAIN call.out.value[h] = Range(sx.target_names)
                        /\ \A t \in Range(sx.target_names) :
                              call.out.value[h][t].index
                                  = LastShaps.foreground_X.index

\* Witness of C3: explain() returned two horizons of two targets from the
\* per-output-estimator layout.
C3_Witness ==
    /\ call.op = "explain" /\ call.out.status = "ok"
    /\ sx.explainers.is_multiOutputRegressor
    /\ sx.n = 2 /\ sx.target_names = <<"a", "b">>
    /\ call.out.value[1]["b"].index = call.out.shaps.foreground_X.index
    /\ Len(call.out.shaps.foreground_X.index) >= 1

\* C7: an unsupported shap_method is rejected at construction with a
\* ValueError, and every name that passes the check (whatever its letter
\* case) gets its explainer built.
C7_AcceptedMethodIsBuilt ==
    (sx.status # "none" /\ sx_in.model.is_regression_model
        /\ sx_in.shap_method # None) =>
        IF upper(sx_in.shap_method[1]) \in ShapMethodMembers
        THEN sx.status = "ok"
        ELSE sx.status = "ValueError" /\ sx.error = "Invalid shap method"

\* The horizons and target names a summary_plot call goes through.
RequestedHorizons ==
    IF call.args.horizons = None THEN [k \in 1..sx.n |-> k - 1]
    ELSE call.args.horizons[1]

\* C8: summary_plot rejects, before computing or plotting anything, a
\* target name the explainer does not have and a horizon above
\* output_chunk_length - 1; in a call that passes the validation every
\* horizon used to index the attributions is in 0 .. output_chunk_length - 1.
C8_ValidatedHorizonsInRange ==
    call.op = "summary_plot" =>
        LET tn == call.args.target_names
            hz == call.args.horizons
            badName == tn # None /\ \E k \in 1..Len(tn[1]) :
                          tn[1][k] \notin Range(sx.target_names)
            badHorizon == hz # None /\ \E k \in 1..Len(hz[1]) :
                          hz[1][k] > sx.n - 1
        IN  /\ (badName \/ badHorizon) =>
                  /\ call.out.status = "ValueError"
                  /\ ~call.out.computed
                  /\ call.out.plots = <<>>
            /\ call.out.status # "ValueError" =>
                  \A k \in 1..Len(RequestedHorizons) :
                      RequestedHorizons[k] \in 0..(sx.n - 1)

\* The component index of target name t: its position in the explainer's
\* target_names, counted from 0.
ComponentOf(t) ==
    (CHOOSE k \in 1..Len(sx.target_names) : sx.target_names[k] = t) - 1

\* C13: in summary_plot, what is plotted under the title of target name t and
\* horizon h is the attribution of the component named t at horizon h: the
\* component index read from the attribution mapping is the position of t in
\* the explainer's target_names.
C13_PlottedComponentIsNamed ==
    call.op = "summary_plot" =>
        \A q \in 1..Len(call.out.plots) :
            LET p == call.out.plots[q]
            IN  /\ p.idx = ComponentOf(p.title.target)
                /\ p.shap = call.out.shaps.value[p.h][ComponentOf(p.title.target)]

-----------------------------------------------------------------------------
(* Properties of the scorer (checked under SpecScorer) *)

ScDone == sc_out.status # "pending"

\* C6: the call produces a result exactly when both series are
\* deterministic.  A non-deterministic actual_series fails the first check,
\* else a non-deterministic pred_series fails the second, and then nothing
\* is subtracted; otherwise the result is actual - pred at every time,
\* component and sample, on the time index and the components of actual.
C6_DifferenceOfDeterministic ==
    ScDone =>
        LET a == sc_in.actual_series
            p == sc_in.pred_series
            v == sc_out.value
        IN  /\ sc_out.status = "ok" <=> (a.n_samples = 1 /\ p.n_samples = 1)
            /\ a.n_samples # 1 =>
                  /\ sc_out.status = "ValueError"
                  /\ sc_out.failed = "actual_series"
                  /\ v = NoSeries
            /\ (a.n_samples = 1 /\ p.n_samples # 1) =>
                  /\ sc_out.status = "ValueError"
                  /\ sc_out.failed = "pred_series"
                  /\ v = NoSeries
            /\ sc_out.status = "ok" =>
                  /\ v.index = a.index
                  /\ v.columns = a.columns
                  /\ \A t \in 1..Len(a.index) : \A c \in 1..Len(a.columns) :
                        v.data[t][c] = <<a.data[t][c][1] - p.data[t][c][1]>>

\* Witness of C6: two deterministic series of two steps and two components
\* were subtracted, with a negative difference among the values.
C6_Witness ==
    /\ ScDone /\ sc_out.status = "ok"
    /\ Len(sc_in.actual_series.index) = 2
    /\ Len(sc_in.actual_series.columns) = 2
    /\ sc_out.value.data[1][1] = <<-2>>
    /\ sc_out.value.data[2][2] = <<2>>

-----------------------------------------------------------------------------
(* Properties of Croston (checked under SpecCroston) *)

\* The statsforecast model a version name stands for.
VariantOf(v) ==
    CASE v = CLASSIC -> "CrostonClassic"
      [] v = OPTIMIZED -> "CrostonOptimized"
      [] v = SBA -> "CrostonSBA"
      [] v = TSB -> "TSB"

\* C9: a version whose lower-case form is classic, optimized, sba or tsb is
\* accepted and selects the variant it names; alpha_d and alpha_p are
\* required only for tsb; any other version is rejected.
C9_VersionSelectsVariant ==
    cr.status # "none" =>
        LET v == lower(cr_in.version)
        IN  IF v \notin {CLASSIC, OPTIMIZED, SBA, TSB}
            THEN cr.status = "ValueError" /\ cr.error = "version"
            ELSE IF v = TSB /\ (cr_in.alpha_d = None \/ cr_in.alpha_p = None)
            THEN cr.status = "ValueError" /\ cr.error = "alpha_d and alpha_p"
            ELSE cr.status = "ok" /\ cr.model = VariantOf(v)

=============================================================================
